---- MODULE Spec2Model ----
(***************************************************************************)
(* Model of the rubbish-geo write path (rubbish_geo_client/ops.py,         *)
(* write_pickups and nearest_centerline_to_point) over a PostGIS database  *)
(* reduced to its three tables of interest: centerlines, pickups and       *)
(* blockface_statistics.                                                   *)
(*                                                                         *)
(* Geometry is planar with integer coordinates; every centerline is an     *)
(* axis-aligned two-point linestring.  A normalized linear reference is    *)
(* kept as its numerator over the centerline's length in coordinate units, *)
(* a density (rubbish_per_meter) as an exact fraction [num, den]: float    *)
(* rounding is not modelled.                                               *)
(***************************************************************************)
EXTENDS Integers, Sequences, FiniteSets, TLC

VARIABLES
    db_centerlines,       \* table centerlines (committed)
    db_pickups,           \* table pickups (committed rows, insertion order)
    db_stats,             \* table blockface_statistics (committed rows)
    pc,                   \* per worker: position inside write_pickups
    error,                \* per worker: the exception write_pickups raised
    pickups,              \* per worker: the argument `pickups`
    curb_var,             \* per worker: the local variable `curb`
    points_needing_work,  \* per worker: local of the matching loop
    iter,                 \* per worker: local `iter` of the matching loop
    centerlines,          \* per worker: local dict `centerlines`
    blockfaces,           \* per worker: blockface_pickups / blockface_lrs
    bf_next,              \* per worker: index of the next blockface to insert
    session,              \* per worker: rows pending in the open session
    run_id,               \* per worker: firebase_run_id of the run
    db_before,            \* per worker: the tables when the run began
    response,             \* the last call of a read operation and its result
    db_zones,             \* table zones (committed rows, insertion order)
    db_zone_generations,  \* table zone_generations (committed rows)
    zone_call,            \* update_zone past its commit: the frame to append
    db_sectors            \* table sectors (committed rows, insertion order)

\* the tables and the call of update_zone
zonevars == <<db_zones, db_zone_generations, zone_call>>

\* the state outside write_pickups
qvars == <<response, zonevars, db_sectors>>

\* the tables
dbvars == <<db_centerlines, db_pickups, db_stats>>

\* the locals of the calls of write_pickups
callvars == <<pc, error, pickups, curb_var, points_needing_work, iter, centerlines,
              blockfaces, bf_next, session, run_id, db_before>>

\* what a read operation leaves alone
readvars == <<dbvars, callvars, zonevars, db_sectors>>

vars == <<db_centerlines, db_pickups, db_stats, pc, error, pickups, curb_var,
          points_needing_work, iter, centerlines, blockfaces, bf_next,
          session, run_id, db_before, qvars>>

---------------------------------------------------------------------------
(* Bounds of the model. *)

\* longest run (number of pickups in one call of write_pickups)
MaxPickups == 3

\* pickups rows the database may hold, in-flight runs included
MaxRows == 4

\* concurrent callers of write_pickups
Workers == {1, 2}

---------------------------------------------------------------------------
(* Arithmetic helpers. *)

Abs(x) == IF x < 0 THEN 0 - x ELSE x

Min(a, b) == IF a < b THEN a ELSE b

Max(a, b) == IF a > b THEN a ELSE b

\* The element of a one-element set.  Written TheOne({F(v) : v \in {e}}) it
\* gives F(e) with e computed once, where a definition or an operator
\* argument is computed again at every use.
TheOne(S) == CHOOSE r \in S : TRUE

RECURSIVE GCD(_, _)
GCD(a, b) ==
    IF b = 0 THEN a
    ELSE TheOne({GCD(b, r) : r \in {a % b}})

\* the fraction n/d in lowest terms (d > 0)
Frac(n, d) ==
    TheOne({[num |-> n \div g, den |-> d \div g] : g \in {GCD(n, d)}})

RECURSIVE SeqSum(_)
SeqSum(s) == IF s = <<>> THEN 0 ELSE Head(s) + SeqSum(Tail(s))

Range(s) == {s[i] : i \in DOMAIN s}

---------------------------------------------------------------------------
(* The street grid: the unit square of the test grid, ten coordinate units *)
(* to the block.  Centerline 4 is stored east-to-west.                     *)

\* NULL in the integer column last_zone_generation; generations count from 0
NullGeneration == 0 - 1

\* A row of the centerlines table as the import of the grid writes it: the
\* frame of get_grid gives every row zone_id 1, first_zone_generation 1 and
\* no last_zone_generation.
CenterlineRow(id, x0, y0, x1, y1) ==
    [ id |-> id, x0 |-> x0, y0 |-> y0, x1 |-> x1, y1 |-> y1, length_in_meters |-> 100,
      zone_id |-> 1, first_zone_generation |-> 1, last_zone_generation |-> NullGeneration ]

GridCity ==
    { CenterlineRow(1, 0,  0,  0,  10),
      CenterlineRow(2, 0,  0,  10, 0),
      CenterlineRow(3, 10, 0,  10, 10),
      CenterlineRow(4, 10, 10, 0,  10) }

\* the osmnx name the grid is imported under
GridName == "Grid City, California"

\* the rows the import of the grid into an empty database leaves in the
\* tables zones and zone_generations; the new generation is the zone's
\* newest, so it is the one whose final_timestamp is set
GridZone == [id |-> 1, osmnx_name |-> GridName]

GridGeneration == [id |-> 1, zone_id |-> 1, generation |-> 0, final_timestamp |-> "set"]

\* length of a centerline in coordinate units
GeomLength(c) == Abs(c.x1 - c.x0) + Abs(c.y1 - c.y0)

\* centerline_geom.project(point_geom, normalized=True), as a numerator over
\* GeomLength(c): distance along the line, from its stored start, of the
\* point of the line nearest to p
Project(c, p) ==
    LET along == IF c.y0 = c.y1
                 THEN IF c.x1 > c.x0 THEN p.x - c.x0 ELSE c.x0 - p.x
                 ELSE IF c.y1 > c.y0 THEN p.y - c.y0 ELSE c.y0 - p.y
    IN  Max(0, Min(GeomLength(c), along))

\* ST_Distance(Centerline.geometry, point), squared
Distance2(c, p) ==
    LET dx == IF c.y0 = c.y1
              THEN Max(0, Max(Min(c.x0, c.x1) - p.x, p.x - Max(c.x0, c.x1)))
              ELSE p.x - c.x0
        dy == IF c.y0 = c.y1
              THEN p.y - c.y0
              ELSE Max(0, Max(Min(c.y0, c.y1) - p.y, p.y - Max(c.y0, c.y1)))
    IN  dx * dx + dy * dy

\* geom.interpolate(t, normalized=True) for t = n / (100 * GeomLength), as
\* the numerator n: a negative distance is measured back from the end of the
\* line, and the result is clamped to the line
Interpolate(c, n) ==
    LET whole == 100 * GeomLength(c)
    IN  IF n < 0 THEN Max(0, whole + n) ELSE Min(whole, n)

\* the side computed on the line as it is stored, without orienting it first
point_side_as_stored(p, c) ==
    LET lr == Project(c, p)
        linear_approx_start == Interpolate(c, 100 * lr - GeomLength(c))
        linear_approx_stop  == Interpolate(c, 100 * lr + GeomLength(c))
        d  == (linear_approx_stop - linear_approx_start) *
                ((p.x - c.x0) * (c.y1 - c.y0) - (p.y - c.y0) * (c.x1 - c.x0))
    IN  IF d <= 0 THEN "left" ELSE "right"

\* point_side_of_centerline: the line is first oriented south-to-north
\* (west-to-east when level); the tangent runs from the point of the line at
\* lr - 0.01 to the one at lr + 0.01, and the sign of its cross product with
\* the point decides; on the line counts as left
point_side_of_centerline(p, c) ==
    LET flip == \/ c.y0 > c.y1
                \/ (c.y0 = c.y1 /\ c.x0 > c.x1)
        o  == IF flip
              THEN [c EXCEPT !.x0 = c.x1, !.y0 = c.y1, !.x1 = c.x0, !.y1 = c.y0]
              ELSE c
        lr == Project(o, p)
        linear_approx_start == Interpolate(o, 100 * lr - GeomLength(o))
        linear_approx_stop  == Interpolate(o, 100 * lr + GeomLength(o))
        \* (x_stop - x_start, y_stop - y_start) is the line's direction
        \* scaled by (linear_approx_stop - linear_approx_start), and the
        \* cross product does not change when p is shifted along the line
        d  == (linear_approx_stop - linear_approx_start) *
                ((p.x - o.x0) * (o.y1 - o.y0) - (p.y - o.y0) * (o.x1 - o.x0))
    IN  IF d <= 0 THEN "left" ELSE "right"

---------------------------------------------------------------------------
(* nearest_centerline_to_point *)

\* rank > 100 raises
RankCap == 100

\* .limit(100) of the KNN pre-query
MatchLimit == 100

\* The centerlines the query may return for (point, rank): none when the call
\* raises ValueError.  Rows at equal distance come back in an order SQL
\* leaves open, so every row that some ordering puts at offset `rank` is a
\* candidate.
nearest_centerline_to_point(db, p, rank) ==
    LET matches == Min(Cardinality(db), MatchLimit)
        \* dists: the distance of every centerline, paired with its id.
        \* The distance of the rows some ordering puts at offset `rank`:
        AtOffset(dists) ==
            CHOOSE d \in {q[1] : q \in dists} :
               /\ rank < Cardinality({q \in dists : q[1] <= d})
               /\ Cardinality({q \in dists : q[1] < d}) <= rank
        Ranked(dists) ==
            TheOne({ {c \in db : <<d, c.id>> \in dists} : d \in {AtOffset(dists)} })
    IN  IF rank > RankCap THEN {}
        ELSE IF matches = 0 THEN {}
        ELSE IF rank >= matches THEN {}
        ELSE TheOne({Ranked(dists) : dists \in {{<<Distance2(c, p), c.id>> : c \in db}}})

\* The distances of the check at the end of nearest_centerline_to_point,
\* 0.0009 and 0.001 degrees, in the unit of the model's coordinates
\* (0.0001 degrees, some 10 meters: a centerline of the grid is 100 meters).
WarnDistance == 9

DiscardDistance == 10

\* The end of nearest_centerline_to_point: the warnings issued for a match
\* at distance dist. The branch is entered when check_distance is False,
\* and neither branch changes what is returned: `return match` follows.
DistanceWarnings(c, p, check_distance) ==
    IF ~check_distance
    THEN (IF Distance2(c, p) > WarnDistance * WarnDistance
          THEN {"located >~100m away"} ELSE {})
           \cup (IF Distance2(c, p) > DiscardDistance * DiscardDistance
                 THEN {"was discarded"} ELSE {})
    ELSE {}

\* Centerlines 5, 6, ...: parallel alleys from (0, 100 + k) east to
\* (10, 100 + k), one more than the highest rank the query serves.
Alleys ==
    { CenterlineRow(4 + k, 0, 100 + k, 10, 100 + k) : k \in 1..(RankCap + 1) }

\* the grid with the alleys to its north
Avenue == GridCity \cup Alleys

---------------------------------------------------------------------------
(* The pickups a caller may send. *)

RequiredAttrs == {"firebase_id", "type", "timestamp", "curb", "geometry"}

AllAttrs == RequiredAttrs \cup {"firebase_run_id"}

RUBBISH_TYPES == {"tobacco", "paper", "plastic", "other", "food", "glass"}

\* the five minutes of padding of the timestamp check, in seconds
ClockSkewPadding == 300

\* a well-formed pickup dict; timestamp.ahead is the timestamp minus the
\* server's UTC time, in seconds
ValidPickup(x, y, curb) ==
    [ is_dict   |-> TRUE,
      attrs     |-> AllAttrs,
      geometry  |-> [type |-> "Point", x |-> x, y |-> y],
      timestamp |-> [castable |-> TRUE, ahead |-> 0],
      curb      |-> curb,
      type      |-> "plastic" ]

\* Points near centerline 2 (from (0,0) east to (10,0)) at linear references
\* 0.2, 0.9 and 0.7, and near centerline 1 (from (0,0) north to (0,10)) at
\* 0.3 and 0.8, each with the sides a caller may claim for it.
OkPickups ==
    { ValidPickup(2, 1, curb)  : curb \in {"None", "left"} }
      \cup { ValidPickup(9, 1, curb)  : curb \in {"left", "middle"} }
      \cup { ValidPickup(7, -1, curb) : curb \in {"None", "right"} }
      \cup { ValidPickup(0, 3, curb)  : curb \in {"None"} }
      \cup { ValidPickup(1, 8, curb)  : curb \in {"None"} }

BadPickups ==
    LET v == ValidPickup(2, 1, "left")
    IN  { [v EXCEPT !.is_dict = FALSE],
          [v EXCEPT !.attrs = AllAttrs \ {"geometry"}],
          [v EXCEPT !.attrs = AllAttrs \ {"firebase_run_id"}],
          [v EXCEPT !.geometry.type = "LineString"],
          [v EXCEPT !.timestamp.castable = FALSE],
          [v EXCEPT !.timestamp.ahead = ClockSkewPadding],
          [v EXCEPT !.timestamp.ahead = ClockSkewPadding + 1],
          [v EXCEPT !.curb = "INVALID"],
          [v EXCEPT !.type = "INVALID"] }

---------------------------------------------------------------------------
(* write_pickups: the validation pass. *)

\* validation without the check of the timestamp against the server's clock
ValidationErrorNoClockCheck(pickup) ==
    IF ~pickup.is_dict THEN "ValueError: not a dict"
    ELSE IF ~(RequiredAttrs \subseteq pickup.attrs) THEN "ValueError: missing attribute"
    ELSE IF pickup.geometry.type # "Point" THEN "ValueError: invalid geometry type"
    ELSE IF ~pickup.timestamp.castable THEN "ValueError: timestamp not castable"
    ELSE IF pickup.curb \notin {"None", "left", "right", "middle"} THEN "ValueError: invalid curb"
    ELSE IF pickup.type \notin RUBBISH_TYPES THEN "ValueError: invalid type"
    ELSE ""

\* the exception the validation loop raises for one pickup, "" for none
ValidationError(pickup) ==
    IF ~pickup.is_dict THEN "ValueError: not a dict"
    ELSE IF ~(RequiredAttrs \subseteq pickup.attrs) THEN "ValueError: missing attribute"
    ELSE IF pickup.geometry.type # "Point" THEN "ValueError: invalid geometry type"
    ELSE IF ~pickup.timestamp.castable THEN "ValueError: timestamp not castable"
    ELSE IF pickup.timestamp.ahead > ClockSkewPadding THEN "ValueError: timestamp in the future"
    ELSE IF pickup.curb \notin {"None", "left", "right", "middle"} THEN "ValueError: invalid curb"
    ELSE IF pickup.type \notin RUBBISH_TYPES THEN "ValueError: invalid type"
    ELSE ""

\* the first exception of the validation loop over the run, "" for none
RECURSIVE Validate(_)
Validate(run) ==
    IF run = <<>> THEN ""
    ELSE IF ValidationError(Head(run)) # "" THEN ValidationError(Head(run))
    ELSE Validate(Tail(run))

\* pickups rows held by the database or on their way into it
RowsInUse ==
    Len(db_pickups) + SeqSum([i \in 1..Cardinality(Workers) |->
        IF pc[i] \in {"idle", "done", "error"} THEN 0 ELSE Len(pickups[i])])

\* a run id no committed row and no other run in flight carries
FreshRunId ==
    LET used == {r.firebase_run_id : r \in Range(db_pickups)}
                  \cup {run_id[v] : v \in {u \in Workers : pc[u] # "idle"}}
    IN  CHOOSE n \in 1..(Cardinality(used) + 1) : n \notin used

NoSession == [pickups |-> <<>>, stats |-> <<>>]

\* no call of update_zone is between its commit and its append
NoZoneCall == [pending |-> FALSE, frame |-> {}]

\* no read operation has been called
NoResponse == [op |-> "none"]

\* the locals of a call that has not started or has returned
Reset(w) ==
    /\ pickups' = [pickups EXCEPT ![w] = <<>>]
    /\ curb_var' = [curb_var EXCEPT ![w] = "None"]
    /\ points_needing_work' = [points_needing_work EXCEPT ![w] = <<>>]
    /\ iter' = [iter EXCEPT ![w] = 0]
    /\ centerlines' = [centerlines EXCEPT ![w] = <<>>]
    /\ blockfaces' = [blockfaces EXCEPT ![w] = <<>>]
    /\ bf_next' = [bf_next EXCEPT ![w] = 1]
    /\ session' = [session EXCEPT ![w] = NoSession]

\* write_pickups(run) is called: the empty run returns at once; the
\* validation loop raises on the first bad pickup; otherwise the session is
\* opened and the matching loop is entered
WritePickupsBegin(w, run) ==
    /\ pc[w] = "idle"
    /\ run_id' = [run_id EXCEPT ![w] = FreshRunId]
    /\ db_before' = [db_before EXCEPT ![w] = [pickups |-> db_pickups, stats |-> db_stats]]
    /\ IF run = <<>>
       THEN /\ pc' = [pc EXCEPT ![w] = "done"]
            /\ error' = [error EXCEPT ![w] = ""]
            /\ Reset(w)
       ELSE IF Validate(run) # ""
       THEN /\ pc' = [pc EXCEPT ![w] = "error"]
            /\ error' = [error EXCEPT ![w] = Validate(run)]
            /\ Reset(w)
       ELSE /\ pc' = [pc EXCEPT ![w] = "match"]
            /\ error' = [error EXCEPT ![w] = ""]
            /\ pickups' = [pickups EXCEPT ![w] = run]
            /\ curb_var' = [curb_var EXCEPT ![w] = run[Len(run)].curb]
            /\ points_needing_work' = [points_needing_work EXCEPT ![w] = run]
            /\ iter' = [iter EXCEPT ![w] = 0]
            /\ centerlines' = [centerlines EXCEPT ![w] = <<>>]
            /\ blockfaces' = [blockfaces EXCEPT ![w] = <<>>]
            /\ bf_next' = [bf_next EXCEPT ![w] = 1]
            /\ session' = [session EXCEPT ![w] = NoSession]
    /\ UNCHANGED <<db_centerlines, db_pickups, db_stats>>
    /\ UNCHANGED qvars

---------------------------------------------------------------------------
(* write_pickups: the matching loop. *)

\* index of the entry of the dict `centerlines` with key c_id, 0 for none
GroupIndex(groups, c_id) ==
    IF \E i \in DOMAIN groups : groups[i].centerline.id = c_id
    THEN CHOOSE i \in DOMAIN groups : groups[i].centerline.id = c_id
    ELSE 0

\* body of the for loop: the point joins the entry of its centerline, which
\* is created at the end of the dict when missing
AddPoint(groups, centerline, point) ==
    LET lr == Project(centerline, point.geometry)
        i  == GroupIndex(groups, centerline.id)
    IN  IF i = 0
        THEN Append(groups, [centerline |-> centerline, lr_min |-> lr, lr_max |-> lr,
                             points |-> <<point>>])
        ELSE [groups EXCEPT ![i] = [centerline |-> centerline,
                                    lr_min |-> Min(@.lr_min, lr),
                                    lr_max |-> Max(@.lr_max, lr),
                                    points |-> Append(@.points, point)]]

\* the for loop over points_needing_work, match[i] being the centerline
\* nearest_centerline_to_point returned for the i-th point
RECURSIVE MatchPoints(_, _, _, _)
MatchPoints(groups, points, match, i) ==
    IF i > Len(points) THEN groups
    ELSE TheOne({MatchPoints(next, points, match, i + 1) :
                    next \in {AddPoint(groups, match[i], points[i])}})

\* a coverage test with the threshold 0.2
LowCoverageFifth(group) ==
    5 * (group.lr_max - group.lr_min) < GeomLength(group.centerline)

\* a coverage test that rejects a coverage of exactly 0.5
LowCoverageStrict(group) ==
    2 * (group.lr_max - group.lr_min) <= GeomLength(group.centerline)

\* lr_max - lr_min < 0.5
LowCoverage(group) ==
    2 * (group.lr_max - group.lr_min) < GeomLength(group.centerline)

\* a coverage test that forgets the pickups of the entries it deletes
RejectedPointsDropped(groups) == <<>>

\* the points of the entries the coverage test deletes, in dict order
RECURSIVE RejectedPoints(_)
RejectedPoints(groups) ==
    IF groups = <<>> THEN <<>>
    ELSE (IF LowCoverage(Head(groups)) THEN Head(groups).points ELSE <<>>)
           \o RejectedPoints(Tail(groups))

\* a coverage test that deletes no entry
KeptGroupsAll(groups) == groups

\* the dict after the coverage test
KeptGroups(groups) == SelectSeq(groups, LAMBDA g : ~LowCoverage(g))

\* a loop that asks for the same rank again
NextRankSame(i) == i

\* a loop that skips a rank at every pass
NextRankSkip(i) == i + 2

\* the rank the loop asks for in its next pass
NextRank(i) == i + 1

\* one pass of the while loop
MatchIter(w) ==
    /\ pc[w] = "match"
    /\ \E points \in {points_needing_work[w]} :
       \* cands: each point's index with what the query may return for it
       \E cands \in {{<<i, nearest_centerline_to_point(db_centerlines, points[i].geometry,
                                                        iter[w])>> : i \in DOMAIN points}} :
           IF \E q \in cands : q[2] = {}
           THEN \* nearest_centerline_to_point raises
                /\ pc' = [pc EXCEPT ![w] = "error"]
                /\ error' = [error EXCEPT ![w] = "ValueError: no centerline of this rank"]
                /\ UNCHANGED <<points_needing_work, iter, centerlines>>
           ELSE \E match \in [DOMAIN points -> UNION {q[2] : q \in cands}] :
                /\ \A q \in cands : match[q[1]] \in q[2]
                /\ \E groups \in {MatchPoints(centerlines[w], points, match, 1)} :
                   LET kept == KeptGroups(groups)
                   IN  /\ points_needing_work' =
                              [points_needing_work EXCEPT ![w] = RejectedPoints(groups)]
                       /\ centerlines' = [centerlines EXCEPT ![w] = kept]
                       /\ iter' = [iter EXCEPT ![w] = NextRank(iter[w])]
                       /\ IF Len(kept) = 0
                          THEN /\ pc' = [pc EXCEPT ![w] = "error"]
                               /\ error' = [error EXCEPT ![w] =
                                              "ValueError: run covers no centerline"]
                          ELSE /\ pc' = [pc EXCEPT ![w] =
                                           IF Len(kept) < Len(groups) THEN "match" ELSE "curb"]
                               /\ UNCHANGED error
    /\ UNCHANGED <<db_centerlines, db_pickups, db_stats, pickups, curb_var, blockfaces,
                   bf_next, session, run_id, db_before>>
    /\ UNCHANGED qvars

---------------------------------------------------------------------------
(* write_pickups: inference of the side of the street. *)

\* an inference that is run on every entry of the dict
NeedsCurbInferenceAlways(group) == TRUE

\* dict entries holding a pickup without a curb
NeedsCurbInference(group) == \E i \in DOMAIN group.points : group.points[i].curb = "None"

centerlines_needing_curb_inference(groups) ==
    {i \in DOMAIN groups : NeedsCurbInference(groups[i])}

\* Counter(sides)[key]: the number of elements equal to key.  The code looks
\* up the keys 0 and 1, written "0" and "1" here, in a Counter of 'left' and
\* 'right' strings.
CounterAt(sides, key) == Cardinality({i \in DOMAIN sides : sides[i] = key})

\* curb = 'left' if c[0] > c[1] else 'right'
MajorityCurb(sides) ==
    IF CounterAt(sides, "0") > CounterAt(sides, "1") THEN "left" ELSE "right"

\* a branch for fewer than three pickups that never reads the pickups' curbs
FirstCurbStale(points, curb) == curb

\* the value of `curb` in the branch for fewer than three pickups; curb is
\* the value the local variable holds when the branch is entered
FirstCurb(points, curb) ==
    IF points[1].curb # "None" THEN points[1].curb
    ELSE IF Len(points) = 2 /\ points[2].curb # "None" THEN points[2].curb
    ELSE curb

SetAllCurbs(points, curb) == [i \in DOMAIN points |-> [points[i] EXCEPT !.curb = curb]]

\* body of the loop over centerlines_needing_curb_inference for one entry:
\* the entry and the local `curb` afterwards.  gaussian is the outcome
\* p > 0.05 of the Shapiro-Wilk test on the distances.
InferCurbs(group, curb, gaussian) ==
    LET points == group.points
        sides  == [i \in DOMAIN points |->
                     point_side_of_centerline(points[i].geometry, group.centerline)]
    IN  IF Len(points) < 3
        THEN [group |-> [group EXCEPT !.points = SetAllCurbs(points, FirstCurb(points, curb))],
              curb  |-> FirstCurb(points, curb)]
        ELSE IF gaussian
        THEN [group |-> [group EXCEPT !.points = SetAllCurbs(points, MajorityCurb(sides))],
              curb  |-> MajorityCurb(sides)]
        ELSE [group |-> [group EXCEPT !.points =
                            [i \in DOMAIN points |->
                               IF points[i].curb = "None"
                               THEN [points[i] EXCEPT !.curb = sides[i]]
                               ELSE points[i]]],
              curb  |-> curb]

\* the loop over centerlines_needing_curb_inference, in the order `order`
RECURSIVE InferAll(_, _, _, _, _)
InferAll(groups, curb, order, gaussian, k) ==
    IF k > Len(order) THEN [groups |-> groups, curb |-> curb]
    ELSE TheOne({InferAll([groups EXCEPT ![order[k]] = r.group], r.curb, order, gaussian,
                          k + 1) :
                    r \in {InferCurbs(groups[order[k]], curb, gaussian[order[k]])}})

\* the orders in which a Python set may be iterated
Orders(S) ==
    {o \in [1..Cardinality(S) -> S] : \A i, j \in DOMAIN o : i # j => o[i] # o[j]}

CurbInference(w) ==
    /\ pc[w] = "curb"
    /\ \E order \in Orders(centerlines_needing_curb_inference(centerlines[w])) :
       \E gaussian \in [DOMAIN centerlines[w] -> BOOLEAN] :
          \* the test is only run on entries of three or more pickups
          /\ \A i \in DOMAIN centerlines[w] :
               (Len(centerlines[w][i].points) < 3 \/ ~NeedsCurbInference(centerlines[w][i]))
                  => ~gaussian[i]
          /\ \E r \in {InferAll(centerlines[w], curb_var[w], order, gaussian, 1)} :
                 /\ centerlines' = [centerlines EXCEPT ![w] = r.groups]
                 /\ curb_var' = [curb_var EXCEPT ![w] = r.curb]
    /\ pc' = [pc EXCEPT ![w] = "build"]
    /\ UNCHANGED <<db_centerlines, db_pickups, db_stats, error, pickups,
                   points_needing_work, iter, blockfaces, bf_next, session, run_id,
                   db_before>>
    /\ UNCHANGED qvars

---------------------------------------------------------------------------
(* write_pickups: the Pickup rows and the blockface map. *)

\* Pickup(...) for one pickup of the entry of `centerline`
PickupRow(centerline, pickup, rid) ==
    [ firebase_run_id  |-> rid,
      centerline_id    |-> centerline.id,
      linear_reference |-> Project(centerline, pickup.geometry),
      curb             |-> pickup.curb ]

\* every (centerline, pickup) pair in the order the nested loops visit them
RECURSIVE Flatten(_)
Flatten(groups) ==
    IF groups = <<>> THEN <<>>
    ELSE [i \in DOMAIN Head(groups).points |->
            [centerline |-> Head(groups).centerline, pickup |-> Head(groups).points[i]]]
         \o Flatten(Tail(groups))

\* index of the blockface (centerline, curb) in the blockface map, 0 for none
BlockfaceIndex(bfs, c_id, curb) ==
    IF \E i \in DOMAIN bfs : bfs[i].centerline.id = c_id /\ bfs[i].curb = curb
    THEN CHOOSE i \in DOMAIN bfs : bfs[i].centerline.id = c_id /\ bfs[i].curb = curb
    ELSE 0

\* the update of blockface_pickups and blockface_lrs for one Pickup row
AddToBlockface(bfs, centerline, row) ==
    LET i  == BlockfaceIndex(bfs, centerline.id, row.curb)
        lr == row.linear_reference
    IN  IF i = 0
        THEN Append(bfs, [centerline |-> centerline, curb |-> row.curb, n |-> 1,
                          min_lr |-> lr, max_lr |-> lr])
        ELSE [bfs EXCEPT ![i] = [@ EXCEPT !.n = @ + 1,
                                          !.min_lr = IF lr < bfs[i].min_lr THEN lr ELSE @,
                                          !.max_lr = IF lr < bfs[i].min_lr THEN @
                                                     ELSE IF lr > @ THEN lr ELSE @]]

RECURSIVE BuildBlockfaces(_, _, _, _)
BuildBlockfaces(bfs, flat, rid, k) ==
    IF k > Len(flat) THEN bfs
    ELSE TheOne({BuildBlockfaces(next, flat, rid, k + 1) :
                    next \in {AddToBlockface(bfs, flat[k].centerline,
                                             PickupRow(flat[k].centerline, flat[k].pickup,
                                                       rid))}})

\* the loop that creates the Pickup objects, adds them to the session and
\* files them by blockface; a pickup without firebase_run_id raises KeyError
BuildPickups(w) ==
    /\ pc[w] = "build"
    /\ \E flat \in {Flatten(centerlines[w])} :
           IF \E k \in DOMAIN flat : "firebase_run_id" \notin flat[k].pickup.attrs
           THEN /\ pc' = [pc EXCEPT ![w] = "error"]
                /\ error' = [error EXCEPT ![w] = "KeyError: firebase_run_id"]
                /\ UNCHANGED <<blockfaces, session>>
           ELSE /\ session' = [session EXCEPT ![w].pickups =
                     [k \in DOMAIN flat |->
                        PickupRow(flat[k].centerline, flat[k].pickup, run_id[w])]]
                /\ blockfaces' = [blockfaces EXCEPT ![w] =
                                    BuildBlockfaces(<<>>, flat, run_id[w], 1)]
                /\ pc' = [pc EXCEPT ![w] = "stats"]
                /\ UNCHANGED error
    /\ bf_next' = [bf_next EXCEPT ![w] = 1]
    /\ UNCHANGED <<db_centerlines, db_pickups, db_stats, pickups, curb_var,
                   points_needing_work, iter, centerlines, run_id, db_before>>
    /\ UNCHANGED qvars

---------------------------------------------------------------------------
(* write_pickups: the blockface statistics. *)

\* a coverage that counts a single position as the whole centerline
CoverageOrWhole(bf) ==
    IF bf.max_lr = bf.min_lr THEN GeomLength(bf.centerline) ELSE bf.max_lr - bf.min_lr

\* coverage = max_lr - min_lr, as a numerator over GeomLength
Coverage(bf) == bf.max_lr - bf.min_lr

\* a density that is not scaled by the coverage
DensityUnscaled(bf) == Frac(bf.n, bf.centerline.length_in_meters)

\* inferred_pickup_density = (len(pickups) / coverage) / length_in_meters
Density(bf) ==
    Frac(bf.n * GeomLength(bf.centerline), Coverage(bf) * bf.centerline.length_in_meters)

\* (prior.rubbish_per_meter * prior.num_runs + density) / (prior.num_runs + 1)
UpdatedDensity(prior, density) ==
    Frac(prior.rubbish_per_meter.num * prior.num_runs * density.den
           + density.num * prior.rubbish_per_meter.den,
         prior.rubbish_per_meter.den * density.den * (prior.num_runs + 1))

\* the rows of blockface_statistics the session's query sees for a
\* blockface: the committed ones and the ones the session itself added
PriorInformation(w, c_id, curb) ==
    SelectSeq(db_stats \o session[w].stats,
              LAMBDA r : r.centerline_id = c_id /\ r.curb = curb)

\* The rows the session holds after the statistics step for one blockface
\* that has a prior row: the updated BlockfaceStatistic object is built and
\* never added to the session, and the prior row is not modified.
StatsAfterUpdate(stats, prior, bf) == stats

\* The rows the session holds after the step for a blockface without a prior.
StatsAfterInsert(stats, bf) ==
    Append(stats, [centerline_id |-> bf.centerline.id, curb |-> bf.curb,
                   num_runs |-> 1, rubbish_per_meter |-> Density(bf)])

\* one pass of the loop over blockface_pickups
StatStep(w) ==
    /\ pc[w] = "stats"
    /\ bf_next[w] <= Len(blockfaces[w])
    /\ LET bf    == blockfaces[w][bf_next[w]]
           prior == PriorInformation(w, bf.centerline.id, bf.curb)
       IN  IF Coverage(bf) = 0
           THEN \* len(pickups) / coverage
                /\ pc' = [pc EXCEPT ![w] = "error"]
                /\ error' = [error EXCEPT ![w] = "ZeroDivisionError"]
                /\ UNCHANGED <<session, bf_next>>
           ELSE IF \E k \in DOMAIN session[w].pickups : session[w].pickups[k].curb = "None"
           THEN \* the query flushes the pending Pickup rows: curb is NOT NULL
                /\ pc' = [pc EXCEPT ![w] = "error"]
                /\ error' = [error EXCEPT ![w] = "IntegrityError"]
                /\ UNCHANGED <<session, bf_next>>
           ELSE IF Len(prior) > 1
           THEN \* one_or_none()
                /\ pc' = [pc EXCEPT ![w] = "error"]
                /\ error' = [error EXCEPT ![w] = "MultipleResultsFound"]
                /\ UNCHANGED <<session, bf_next>>
           ELSE /\ session' = [session EXCEPT ![w].stats =
                                 IF Len(prior) = 0
                                 THEN StatsAfterInsert(@, bf)
                                 ELSE StatsAfterUpdate(@, prior[1], bf)]
                /\ bf_next' = [bf_next EXCEPT ![w] = @ + 1]
                /\ pc' = [pc EXCEPT ![w] =
                            IF bf_next[w] = Len(blockfaces[w]) THEN "commit" ELSE "stats"]
                /\ UNCHANGED error
    /\ UNCHANGED <<db_centerlines, db_pickups, db_stats, pickups, curb_var,
                   points_needing_work, iter, centerlines, blockfaces, run_id, db_before>>
    /\ UNCHANGED qvars

\* a commit that writes the statistics and leaves the Pickup rows out
CommitStatsOnly(w) ==
    /\ pc[w] = "commit"
    /\ db_stats' = db_stats \o session[w].stats
    /\ pc' = [pc EXCEPT ![w] = "done"]
    /\ UNCHANGED <<db_centerlines, db_pickups, error, pickups, curb_var,
                   points_needing_work, iter, centerlines, blockfaces, bf_next, session,
                   run_id, db_before>>
    /\ UNCHANGED qvars

\* session.commit()
Commit(w) ==
    /\ pc[w] = "commit"
    /\ db_pickups' = db_pickups \o session[w].pickups
    /\ db_stats' = db_stats \o session[w].stats
    /\ pc' = [pc EXCEPT ![w] = "done"]
    /\ UNCHANGED <<db_centerlines, error, pickups, curb_var, points_needing_work, iter,
                   centerlines, blockfaces, bf_next, session, run_id, db_before>>
    /\ UNCHANGED qvars

\* write_pickups has returned or raised; the worker is free for another call
Return(w) ==
    /\ pc[w] \in {"done", "error"}
    /\ pc' = [pc EXCEPT ![w] = "idle"]
    /\ error' = [error EXCEPT ![w] = ""]
    /\ run_id' = [run_id EXCEPT ![w] = 0]
    /\ db_before' = [db_before EXCEPT ![w] = [pickups |-> <<>>, stats |-> <<>>]]
    /\ Reset(w)
    /\ UNCHANGED <<db_centerlines, db_pickups, db_stats>>
    /\ UNCHANGED qvars

---------------------------------------------------------------------------
(* The specifications. *)

\* write_pickups is called with a run of up to MaxPickups pickups: either
\* any pickups of ok, or a pickup of bad at any place among copies of one
\* pickup of ok
Call(w, ok, bad) ==
    /\ pc[w] = "idle"
    /\ \E n \in 0..Min(MaxPickups, MaxRows - RowsInUse) :
          \/ \E run \in [1..n -> ok] : WritePickupsBegin(w, run)
          \/ \E i \in 1..n : \E b \in bad : \E g \in ok :
                WritePickupsBegin(w, [k \in 1..n |-> IF k = i THEN b ELSE g])

\* the state before any call, the centerlines table holding `world`
InitWith(world) ==
    /\ db_centerlines = world
    /\ db_pickups = <<>>
    /\ db_stats = <<>>
    /\ pc = [w \in Workers |-> "idle"]
    /\ error = [w \in Workers |-> ""]
    /\ pickups = [w \in Workers |-> <<>>]
    /\ curb_var = [w \in Workers |-> "None"]
    /\ points_needing_work = [w \in Workers |-> <<>>]
    /\ iter = [w \in Workers |-> 0]
    /\ centerlines = [w \in Workers |-> <<>>]
    /\ blockfaces = [w \in Workers |-> <<>>]
    /\ bf_next = [w \in Workers |-> 1]
    /\ session = [w \in Workers |-> NoSession]
    /\ run_id = [w \in Workers |-> 0]
    /\ db_before = [w \in Workers |-> [pickups |-> <<>>, stats |-> <<>>]]
    /\ response = NoResponse
    /\ db_zones = IF world = {} THEN <<>> ELSE <<GridZone>>
    /\ db_zone_generations = IF world = {} THEN <<>> ELSE <<GridGeneration>>
    /\ zone_call = NoZoneCall
    /\ db_sectors = <<>>

Init == InitWith(GridCity)

\* one caller: runs are processed one after the other
Next ==
    \/ Call(1, OkPickups, BadPickups)
    \/ MatchIter(1)
    \/ CurbInference(1)
    \/ BuildPickups(1)
    \/ StatStep(1)
    \/ Commit(1)
    \/ Return(1)

Spec == Init /\ [][Next]_vars

\* the pickups of the runs sent concurrently: two pickups that cover
\* centerline 2 on its left side, and one with no side given
ConcPickups ==
    { ValidPickup(2, 1, "left"), ValidPickup(9, 1, "left"), ValidPickup(7, -1, "None") }

ConcBadPickups == { [ValidPickup(2, 1, "left") EXCEPT !.curb = "INVALID"] }

\* independent callers: each call runs in its own session, and the steps of
\* different calls interleave
ConcNext ==
    \E w \in Workers :
       \/ Call(w, ConcPickups, ConcBadPickups)
       \/ MatchIter(w)
       \/ CurbInference(w)
       \/ BuildPickups(w)
       \/ StatStep(w)
       \/ Commit(w)
       \/ Return(w)

ConcSpec == Init /\ [][ConcNext]_vars

\* the pickups of the runs sent in the city with the alleys: two pickups that
\* cover half of centerline 2, and one north of all the alleys, to which
\* centerline 2 is the farthest centerline
AvenuePickups ==
    { ValidPickup(2, 1, "left"), ValidPickup(7, -1, "left"), ValidPickup(5, 300, "left") }

AvenueInit == InitWith(Avenue)

AvenueNext ==
    \/ Call(1, AvenuePickups, ConcBadPickups)
    \/ MatchIter(1)
    \/ CurbInference(1)
    \/ BuildPickups(1)
    \/ StatStep(1)
    \/ Commit(1)
    \/ Return(1)

---------------------------------------------------------------------------
(* update_zone (rubbish_geo_admin/ops.py). *)

\* imports of one zone the model follows
MaxImports == 2

\* the rows of a table that belong to a zone, in order
ZoneRows(table, zone_id) == SelectSeq(table, LAMBDA r : r.zone_id = zone_id)

\* index of the zone with this osmnx name in the zones table, 0 for none
ZoneIndex(name) ==
    IF \E i \in DOMAIN db_zones : db_zones[i].osmnx_name = name
    THEN CHOOSE i \in DOMAIN db_zones : db_zones[i].osmnx_name = name
    ELSE 0

\* the highest id in the centerlines table, 0 when it is empty
MaxCenterlineId ==
    IF db_centerlines = {} THEN 0
    ELSE CHOOSE n \in {c.id : c \in db_centerlines} : \A c \in db_centerlines : c.id <= n

\* The frame update_zone appends: the grid's lines.  A frame passed in by
\* the caller (get_grid) carries its own zone_id and first_zone_generation;
\* a downloaded one gets the zone's id and the id of the new generation.
ZoneFrame(download, zone_id, generation_id) ==
    { [c EXCEPT !.zone_id = IF download THEN zone_id ELSE @,
                !.first_zone_generation = IF download THEN generation_id ELSE @]
        : c \in GridCity }

\* update_zone up to and including session.commit(): the zone is created
\* when missing, the new generation is added, the zone's open centerlines
\* are capped at the generation before it, and the final_timestamp of the
\* zone's newest generation (the one just added) is set
UpdateZone(name, download) ==
    /\ ~zone_call.pending
    /\ LET exists  == ZoneIndex(name) # 0
           zone_id == IF exists THEN db_zones[ZoneIndex(name)].id ELSE Len(db_zones) + 1
           gens    == ZoneRows(db_zone_generations, zone_id)
           next_zone_generation ==
               IF exists
               THEN CHOOSE n \in {gens[i].generation + 1 : i \in DOMAIN gens} :
                       \A i \in DOMAIN gens : gens[i].generation < n
               ELSE 0
           generation_id == Len(db_zone_generations) + 1
           \* ZoneGeneration(..., final_timestamp=None), added and flushed
           added == Append(db_zone_generations,
                           [id |-> generation_id, zone_id |-> zone_id,
                            generation |-> next_zone_generation,
                            final_timestamp |-> "None"])
           \* filter_by(zone_id=zone.id).order_by(desc(ZoneGeneration.id)).first()
           current_zone_generation ==
               CHOOSE i \in DOMAIN added :
                  /\ added[i].zone_id = zone_id
                  /\ \A j \in DOMAIN added :
                        added[j].zone_id = zone_id => added[j].id <= added[i].id
       IN  /\ Len(gens) < MaxImports
           /\ db_zones' = IF exists THEN db_zones
                          ELSE Append(db_zones, [id |-> zone_id, osmnx_name |-> name])
           /\ db_zone_generations' =
                 [added EXCEPT ![current_zone_generation].final_timestamp = "set"]
           /\ db_centerlines' =
                 { IF c.zone_id = zone_id /\ c.last_zone_generation = NullGeneration
                   THEN [c EXCEPT !.last_zone_generation = next_zone_generation - 1]
                   ELSE c : c \in db_centerlines }
           /\ zone_call' = [pending |-> TRUE,
                            frame |-> ZoneFrame(download, zone_id, generation_id)]
    /\ UNCHANGED <<db_pickups, db_stats, callvars, response, db_sectors>>

\* centerlines.to_postgis("centerlines", engine, if_exists="append"): the
\* rows of the frame get the next ids of the table's sequence
AppendCenterlines ==
    /\ zone_call.pending
    /\ db_centerlines' =
          db_centerlines
            \cup {[c EXCEPT !.id = MaxCenterlineId + c.id] : c \in zone_call.frame}
    /\ zone_call' = NoZoneCall
    /\ UNCHANGED <<db_pickups, db_stats, callvars, response, db_zones, db_zone_generations,
                   db_sectors>>

\* to_postgis raises: the rollback finds nothing to undo, the commit is done
AppendCenterlinesFails ==
    /\ zone_call.pending
    /\ zone_call' = NoZoneCall
    /\ UNCHANGED <<dbvars, callvars, response, db_zones, db_zone_generations, db_sectors>>

\* the pickups of the runs sent while the zone is re-imported: two pickups
\* that cover half of centerline 2
ZonePickups == { ValidPickup(2, 1, "left"), ValidPickup(7, -1, "left") }

\* the database before the first import
ZoneInit == InitWith({})

\* an administrator imports the grid and imports it again, while a caller
\* sends runs
ZoneNext ==
    \/ \E download \in BOOLEAN : UpdateZone(GridName, download)
    \/ AppendCenterlines
    \/ AppendCenterlinesFails
    \/ Call(1, ZonePickups, ConcBadPickups)
    \/ MatchIter(1)
    \/ CurbInference(1)
    \/ BuildPickups(1)
    \/ StatStep(1)
    \/ Commit(1)
    \/ Return(1)

ZoneSpec == ZoneInit /\ [][ZoneNext]_vars

\* the osmnx names the administrator imports
ZoneNames == {GridName, "Second City, California"}

\* an administrator imports and re-imports two zones, the centerlines
\* being downloaded (centerlines=None)
AdminNext ==
    \/ \E name \in ZoneNames : UpdateZone(name, TRUE)
    \/ AppendCenterlines
    \/ AppendCenterlinesFails

AdminSpec == ZoneInit /\ [][AdminNext]_vars

\* the pickups of the runs with far-away points: two pickups that cover
\* half of centerline 2, and two that lie 20 units north of centerline 4,
\* twice the distance of the check, and cover 0.6 of it
FarPickups ==
    { ValidPickup(2, 1, "left"), ValidPickup(7, 0 - 1, "left"),
      ValidPickup(2, 30, "left"), ValidPickup(8, 30, "left") }

\* a caller sends runs with check_distance=True, the default
FarNext ==
    \/ Call(1, FarPickups, ConcBadPickups)
    \/ MatchIter(1)
    \/ CurbInference(1)
    \/ BuildPickups(1)
    \/ StatStep(1)
    \/ Commit(1)
    \/ Return(1)

FarSpec == Init /\ [][FarNext]_vars

\* the runs sent to look at the sides: two pickups without a side that cover
\* half of centerline 1, and two pickups that cover half of centerline 2,
\* with the sides a caller may claim for them, the groups in either order
CurbRuns ==
    LET first  == <<ValidPickup(0, 3, "None"), ValidPickup(1, 8, "None")>>
        second == {<<ValidPickup(2, 1, x), ValidPickup(7, 0 - 1, y)>> :
                      x, y \in {"None", "left", "right"}}
    IN  {first \o t : t \in second} \cup {t \o first : t \in second}

\* a caller sends one of the runs to a database without pickups
CurbNext ==
    \/ /\ db_pickups = <<>>
       /\ \E run \in CurbRuns : WritePickupsBegin(1, run)
    \/ MatchIter(1)
    \/ CurbInference(1)
    \/ BuildPickups(1)
    \/ StatStep(1)
    \/ Commit(1)
    \/ Return(1)

CurbSpec == Init /\ [][CurbNext]_vars

\* a call that is in its matching loop goes on to make the next pass
AvenueSpec == AvenueInit /\ [][AvenueNext]_vars /\ WF_vars(MatchIter(1))

---------------------------------------------------------------------------
(* point_side_of_centerline as an operation of its own. *)

\* LineString(centerline_geom.coords[::-1])
Reversed(c) == [c EXCEPT !.x0 = c.x1, !.y0 = c.y1, !.x1 = c.x0, !.y1 = c.y0]

\* the centerlines of the grid, each in both orders of its coordinates
SideSegments == GridCity \cup {Reversed(c) : c \in GridCity}

\* points on, between, beside and beyond the centerlines of the grid
SidePoints == {[type |-> "Point", x |-> x, y |-> y] : x, y \in {-1, 0, 3, 10, 11}}

\* point_side_of_centerline is called on a point and a centerline, and on
\* the same point and the centerline with its coordinates in reverse order
SideOf(p, c) ==
    /\ response' = [op |-> "point_side_of_centerline", point |-> p, centerline |-> c,
                    side |-> point_side_of_centerline(p, c),
                    side_reversed |-> point_side_of_centerline(p, Reversed(c))]
    /\ UNCHANGED readvars

SideNext == \E p \in SidePoints : \E c \in SideSegments : SideOf(p, c)

SideSpec == Init /\ [][SideNext]_vars

---------------------------------------------------------------------------
(* nearest_centerline_to_point as an operation of its own. *)

\* the ranks asked for: the first ranks, and the ranks around the number of
\* centerlines of the grid, the rank ceiling and the size of the avenue
NearestRanks == {0, 1, 3, 4, 5, 99, 100, 101, 104, 105}

\* the points asked for
NearestPoints == {[type |-> "Point", x |-> x, y |-> y] : x \in {2, 9}, y \in {1, 50, 300}}

\* nearest_centerline_to_point(point, session, rank, check_distance) is
\* called; result holds the centerline returned, and nothing when the call
\* raises ValueError; warnings holds the warnings issued
NearestCall(p, rank, check_distance) ==
    /\ \E cands \in {nearest_centerline_to_point(db_centerlines, p, rank)} :
          \/ /\ cands = {}
             /\ response' = [op |-> "nearest_centerline_to_point", point |-> p,
                             rank |-> rank, check_distance |-> check_distance,
                             result |-> {}, warnings |-> {}]
          \/ \E c \in cands :
                response' = [op |-> "nearest_centerline_to_point", point |-> p,
                             rank |-> rank, check_distance |-> check_distance,
                             result |-> {c},
                             warnings |-> DistanceWarnings(c, p, check_distance)]
    /\ UNCHANGED readvars

\* the database is empty, or holds the grid, or the grid and the alleys
NearestInit == \E world \in {{}, GridCity, Avenue} : InitWith(world)

NearestNext ==
    \E p \in NearestPoints : \E rank \in NearestRanks : \E check_distance \in BOOLEAN :
       NearestCall(p, rank, check_distance)

NearestSpec == NearestInit /\ [][NearestNext]_vars

---------------------------------------------------------------------------
(* The read operations: run_get. *)

\* {'left': None, 'middle': None, 'right': None}; a statistic is held as a
\* one-element set, None as the empty set
NoStatistics == [left |-> {}, middle |-> {}, right |-> {}]

\* index of the entry of response_map with key c_id, 0 for none
ResponseIndex(map, c_id) ==
    IF \E i \in DOMAIN map : map[i].centerline = c_id
    THEN CHOOSE i \in DOMAIN map : map[i].centerline = c_id
    ELSE 0

\* body of the loop over the statistics: the entry of the statistic's
\* centerline is created when missing, and the statistic is filed under its
\* curb, replacing what was there
AddStatistic(map, statistic) ==
    LET i == ResponseIndex(map, statistic.centerline_id)
    IN  IF i = 0
        THEN Append(map, [centerline |-> statistic.centerline_id,
                          statistics |-> [NoStatistics EXCEPT ![statistic.curb] = {statistic}]])
        ELSE [map EXCEPT ![i].statistics[statistic.curb] = {statistic}]

\* response_map after the loop over statistics[k..], in dict order
RECURSIVE ResponseMap(_, _, _)
ResponseMap(map, statistics, k) ==
    IF k > Len(statistics) THEN map
    ELSE TheOne({ResponseMap(next, statistics, k + 1) :
                    next \in {AddStatistic(map, statistics[k])}})

\* a run_get that returns every statistic of the centerlines of the run
run_get_unfiltered(rid) ==
    LET run_pickups == SelectSeq(db_pickups, LAMBDA r : r.firebase_run_id = rid)
        centerline_ids == {r.centerline_id : r \in Range(run_pickups)}
        statistics == SelectSeq(db_stats, LAMBDA r : r.centerline_id \in centerline_ids)
    IN  IF Len(run_pickups) = 0
        THEN [raised |-> TRUE, result |-> <<>>]
        ELSE [raised |-> FALSE, result |-> ResponseMap(<<>>, statistics, 1)]

\* run_get(run_id): raised tells whether the call raised ValueError, result
\* is the list returned.  Rows come back in table order.
run_get(rid) ==
    LET run_pickups == SelectSeq(db_pickups, LAMBDA r : r.firebase_run_id = rid)
        centerline_ids == {r.centerline_id : r \in Range(run_pickups)}
        curb_map(c_id) == {r.curb : r \in {q \in Range(run_pickups) : q.centerline_id = c_id}}
        statistics == SelectSeq(db_stats, LAMBDA r : r.centerline_id \in centerline_ids)
        statistics_filtered ==
            SelectSeq(statistics, LAMBDA r : r.curb \in curb_map(r.centerline_id))
    IN  IF Len(run_pickups) = 0
        THEN [raised |-> TRUE, result |-> <<>>]
        ELSE [raised |-> FALSE, result |-> ResponseMap(<<>>, statistics_filtered, 1)]

\* a caller asks for a run
RunGet(rid) ==
    /\ \E r \in {run_get(rid)} :
          response' = [op |-> "run_get", run_id |-> rid, raised |-> r.raised,
                       result |-> r.result]
    /\ UNCHANGED readvars

---------------------------------------------------------------------------
(* The sectors table, and the read operations radial_get and sector_get. *)

\* index of the sectors row with this name, 0 for none
SectorIndex(name) ==
    IF \E i \in DOMAIN db_sectors : db_sectors[i].name = name
    THEN CHOOSE i \in DOMAIN db_sectors : db_sectors[i].name = name
    ELSE 0

\* insert_sector(sector_name, filepath): raises, leaving the table alone,
\* when the name is taken; else the row is added and committed.  The
\* geometry is a rectangle [xmin, ymin, xmax, ymax].
InsertSector(name, geometry) ==
    /\ SectorIndex(name) = 0
    /\ db_sectors' = Append(db_sectors, [name |-> name, geometry |-> geometry])
    /\ UNCHANGED <<dbvars, callvars, zonevars, response>>

\* delete_sector(sector_name): raises when there is no such sector; else
\* the row is deleted and the deletion committed
DeleteSector(name) ==
    /\ SectorIndex(name) # 0
    /\ db_sectors' = SelectSeq(db_sectors, LAMBDA r : r.name # name)
    /\ UNCHANGED <<dbvars, callvars, zonevars, response>>

\* Centerline.geometry.ST_Intersects(sector.geometry): the segment and the
\* rectangle share at least one point
ST_Intersects(c, g) ==
    /\ Min(c.x0, c.x1) <= g.xmax
    /\ Max(c.x0, c.x1) >= g.xmin
    /\ Min(c.y0, c.y1) <= g.ymax
    /\ Max(c.y0, c.y1) >= g.ymin

\* the rows of a query on centerlines, in id order
RECURSIVE InIdOrder(_)
InIdOrder(rows) ==
    IF rows = {} THEN <<>>
    ELSE LET first == CHOOSE c \in rows : \A d \in rows : c.id <= d.id
         IN  <<first>> \o InIdOrder(rows \ {first})

\* response_map after the loop `for centerline in centerlines` that is run
\* under include_na: a centerline without an entry gets one whose
\* statistics are all None
RECURSIVE AddMissing(_, _, _)
AddMissing(map, rows, k) ==
    IF k > Len(rows) THEN map
    ELSE IF ResponseIndex(map, rows[k].id) # 0
         THEN AddMissing(map, rows, k + 1)
         ELSE AddMissing(Append(map, [centerline |-> rows[k].id,
                                      statistics |-> NoStatistics]),
                         rows, k + 1)

\* a response that adds the centerlines without statistics whatever
\* include_na says
StatisticsResponseAll(rows, include_na) ==
    LET centerline_ids == {c.id : c \in rows}
        statistics == SelectSeq(db_stats, LAMBDA r : r.centerline_id \in centerline_ids)
    IN  AddMissing(ResponseMap(<<>>, statistics, 1), InIdOrder(rows), 1)

\* the list radial_get and sector_get build from the centerlines their
\* query selected
StatisticsResponse(rows, include_na) ==
    LET centerline_ids == {c.id : c \in rows}
        statistics == SelectSeq(db_stats, LAMBDA r : r.centerline_id \in centerline_ids)
        response_map == ResponseMap(<<>>, statistics, 1)
    IN  IF include_na THEN AddMissing(response_map, InIdOrder(rows), 1)
        ELSE response_map

\* radial_get(coord, distance, include_na): ST_Distance(coord) < distance
radial_get(coord, distance, include_na) ==
    StatisticsResponse({c \in db_centerlines : Distance2(c, coord) < distance * distance},
                       include_na)

\* sector_get(sector_name, include_na): raised tells whether the call
\* raised ValueError, result is the list returned
sector_get(sector_name, include_na) ==
    LET i == SectorIndex(sector_name)
    IN  IF i = 0
        THEN [raised |-> TRUE, result |-> <<>>]
        ELSE [raised |-> FALSE,
              result |-> StatisticsResponse(
                            {c \in db_centerlines : ST_Intersects(c, db_sectors[i].geometry)},
                            include_na)]

\* a caller asks for the blockfaces around a point
RadialGet(coord, distance, include_na) ==
    /\ \E r \in {radial_get(coord, distance, include_na)} :
          response' = [op |-> "radial_get", coord |-> coord, distance |-> distance,
                       include_na |-> include_na, raised |-> FALSE, result |-> r]
    /\ UNCHANGED readvars

\* a caller asks for the blockfaces of a sector
SectorGet(sector_name, include_na) ==
    /\ \E r \in {sector_get(sector_name, include_na)} :
          response' = [op |-> "sector_get", sector_name |-> sector_name,
                       include_na |-> include_na, raised |-> r.raised,
                       result |-> r.result]
    /\ UNCHANGED readvars

\* the sector the administrator defines, and a name that is never defined
SectorName == "Polygon Land"

SectorNamesAsked == {SectorName, "INVALID"}

\* the shapes the sector is defined with: the block the grid encloses, its
\* lower left quarter, and a square that meets the grid at the corner (0, 0)
SectorShapes ==
    { [xmin |-> 0, ymin |-> 0, xmax |-> 10, ymax |-> 10],
      [xmin |-> 0, ymin |-> 0, xmax |-> 5, ymax |-> 5],
      [xmin |-> 0 - 5, ymin |-> 0 - 5, xmax |-> 0, ymax |-> 0] }

\* the points and distances radial_get is asked with
RadialCoords == { [x |-> 0, y |-> 0], [x |-> 5, y |-> 5] }

RadialDistances == {1, 10}

\* the pickups of the runs sent while the sectors are asked for: two
\* pickups on the left of centerline 2 that cover half of it
SectorPickups == { ValidPickup(2, 1, "left"), ValidPickup(7, -1, "left") }

\* one caller sends runs, the administrator defines and deletes the
\* sector, and radial_get and sector_get are called in between
SectorNext ==
    \/ Call(1, SectorPickups, ConcBadPickups)
    \/ MatchIter(1)
    \/ CurbInference(1)
    \/ BuildPickups(1)
    \/ StatStep(1)
    \/ Commit(1)
    \/ Return(1)
    \/ \E shape \in SectorShapes : InsertSector(SectorName, shape)
    \/ DeleteSector(SectorName)
    \/ \E name \in SectorNamesAsked : \E include_na \in BOOLEAN : SectorGet(name, include_na)
    \/ \E coord \in RadialCoords : \E distance \in RadialDistances :
       \E include_na \in BOOLEAN : RadialGet(coord, distance, include_na)

SectorSpec == Init /\ [][SectorNext]_vars

\* the run ids asked for
QueryRunIds == 1..3

\* the pickups of the runs sent: either side of centerline 2, whose pickups
\* cover half of it
QueryPickups ==
    { ValidPickup(2, 1, curb) : curb \in {"left", "right"} }
      \cup { ValidPickup(7, -1, curb) : curb \in {"left", "right"} }

\* one caller sends runs, and the read operations are called in between
QueryNext ==
    \/ Call(1, QueryPickups, ConcBadPickups)
    \/ MatchIter(1)
    \/ CurbInference(1)
    \/ BuildPickups(1)
    \/ StatStep(1)
    \/ Commit(1)
    \/ Return(1)
    \/ \E rid \in QueryRunIds : RunGet(rid)

QuerySpec == Init /\ [][QueryNext]_vars

---------------------------------------------------------------------------
(* The read operations: coord_get. *)

\* if rank >= 10: raise
CoordAttempts == 10

\* get_stats_objs(session, centerline_id), in table order
get_stats_objs(c_id) == SelectSeq(db_stats, LAMBDA r : r.centerline_id = c_id)

\* {stat_dict['curb']: stat_dict for stat_dict in stats_dicts}, with None
\* for the sides that are missing
RECURSIVE StatisticsByCurb(_, _, _)
StatisticsByCurb(statistics, stats_objs, k) ==
    IF k > Len(stats_objs) THEN statistics
    ELSE StatisticsByCurb([statistics EXCEPT ![stats_objs[k].curb] = {stats_objs[k]}],
                          stats_objs, k + 1)

\* what coord_get returns for a centerline and its statistics; tried lists
\* the centerlines nearest_centerline_to_point returned, in order
CoordResult(c_id, stats_objs, tried) ==
    [raised |-> FALSE, centerline |-> {c_id}, tried |-> tried,
     statistics |-> StatisticsByCurb(NoStatistics, stats_objs, 1)]

\* coord_get raises ValueError
CoordRaised(tried) ==
    [raised |-> TRUE, centerline |-> {}, tried |-> tried, statistics |-> NoStatistics]

\* The outcomes of the while loop of coord_get from `rank` on: the pass
\* fetches the centerline of this rank and its statistics, adds one to
\* rank, and raises when rank has reached 10, whatever it fetched.
RECURSIVE coord_get_matches(_, _, _)
coord_get_matches(p, rank, tried) ==
    LET cands == nearest_centerline_to_point(db_centerlines, p, rank)
    IN  IF cands = {} THEN {CoordRaised(tried)}
        ELSE UNION { IF rank + 1 >= CoordAttempts
                     THEN {CoordRaised(Append(tried, c.id))}
                     ELSE IF Len(get_stats_objs(c.id)) = 0
                     THEN coord_get_matches(p, rank + 1, Append(tried, c.id))
                     ELSE {CoordResult(c.id, get_stats_objs(c.id), Append(tried, c.id))}
                       : c \in cands }

\* the outcomes of coord_get(coord, include_na)
coord_get(p, include_na) ==
    IF include_na
    THEN LET cands == nearest_centerline_to_point(db_centerlines, p, 0)
         IN  IF cands = {} THEN {CoordRaised(<<>>)}
             ELSE {CoordResult(c.id, get_stats_objs(c.id), <<c.id>>) : c \in cands}
    ELSE coord_get_matches(p, 0, <<>>)

\* a caller asks for the statistics at a coordinate
CoordGet(p, include_na) ==
    /\ \E r \in coord_get(p, include_na) :
          response' = [op |-> "coord_get", point |-> p, include_na |-> include_na,
                       raised |-> r.raised, centerline |-> r.centerline,
                       tried |-> r.tried, statistics |-> r.statistics]
    /\ UNCHANGED readvars

\* the grid and the eight alleys nearest to it: twelve centerlines, as many
\* as the test grid has
Lane == GridCity \cup {c \in Alleys : c.id <= 12}

\* the coordinates asked for: north of the alleys, from where centerline 4
\* has rank 8 and centerline 1 rank 9, and south of the grid
CoordPoints ==
    { [type |-> "Point", x |-> 4, y |-> 300], [type |-> "Point", x |-> 4, y |-> 0 - 5] }

\* the pickups of the runs sent: a pair that covers half of centerline 1 and
\* a pair that covers half of centerline 4
CoordPickups ==
    { ValidPickup(0, 3, "left"), ValidPickup(1, 8, "left"),
      ValidPickup(2, 9, "left"), ValidPickup(7, 11, "left") }

CoordInit == InitWith(Lane)

\* one caller sends runs, and coord_get is called in between
CoordNext ==
    \/ Call(1, CoordPickups, ConcBadPickups)
    \/ MatchIter(1)
    \/ CurbInference(1)
    \/ BuildPickups(1)
    \/ StatStep(1)
    \/ Commit(1)
    \/ Return(1)
    \/ \E p \in CoordPoints : \E include_na \in BOOLEAN : CoordGet(p, include_na)

CoordSpec == CoordInit /\ [][CoordNext]_vars

---------------------------------------------------------------------------
(* Vocabulary of the properties. *)

SetMax(S) == CHOOSE x \in S : \A y \in S : y <= x

SetMin(S) == CHOOSE x \in S : \A y \in S : x <= y

\* max - min of the linear references on c of the pickups run[i], i in I
Span(c, run, I) ==
    SetMax({Project(c, run[i].geometry) : i \in I})
      - SetMin({Project(c, run[i].geometry) : i \in I})

\* the centerlines no centerline is nearer to p than
Nearest(p) ==
    {c \in db_centerlines : \A t \in db_centerlines : Distance2(c, p) <= Distance2(t, p)}

\* each pickup of run, by its index, with the centerlines nearest to it
NearestOf(run) == {<<i, Nearest(run[i].geometry)>> : i \in DOMAIN run}

\* the pickups of run that c is a nearest centerline of, near being
\* NearestOf(run)
NearestTo(c, near) == {q[1] : q \in {r \in near : c \in r[2]}}

\* the rows of a blockface_statistics table for one blockface
RowsFor(stats, c_id, curb) ==
    SelectSeq(stats, LAMBDA r : r.centerline_id = c_id /\ r.curb = curb)

\* the (centerline, pickup) pairs of worker w's dict that lie on a blockface
OnBlockface(w, c_id, curb) ==
    SelectSeq(Flatten(centerlines[w]),
              LAMBDA a : a.centerline.id = c_id /\ a.pickup.curb = curb)

\* the blockfaces worker w's dict holds pickups for
Touched(w) ==
    {<<a.centerline.id, a.pickup.curb>> : a \in Range(Flatten(centerlines[w]))}

CenterlineById(c_id) == CHOOSE c \in db_centerlines : c.id = c_id

\* the exceptions raised after the matching loop
LateErrors ==
    {"KeyError: firebase_run_id", "ZeroDivisionError", "IntegrityError", "MultipleResultsFound"}

\* worker w is past the matching loop, which ended without raising
Matched(w) ==
    \/ pc[w] \in {"curb", "build", "stats", "commit", "done"} /\ pickups[w] # <<>>
    \/ pc[w] = "error" /\ error[w] \in LateErrors

\* the database holds what it held when worker w's call began
Untouched(w) ==
    /\ db_pickups = db_before[w].pickups
    /\ db_stats = db_before[w].stats

\* n1/d1 = n2/d2
SameFraction(n1, d1, n2, d2) == n1 * d2 = n2 * d1

---------------------------------------------------------------------------
(* C1 *)

\* every group the first pass can form spans less than half its centerline
NoCoverage(run) ==
    \E near \in {NearestOf(run)} :
       \A c \in db_centerlines :
          \/ NearestTo(c, near) = {}
          \/ 2 * Span(c, run, NearestTo(c, near)) < GeomLength(c)

\* C1: a run none of whose groups reaches coverage 0.5 makes write_pickups
\* raise after its first pass, with no row pending and no Pickup or
\* BlockfaceStatistic row inserted or modified.
C1_IncompleteRunRejected ==
    \A w \in Workers :
       (pickups[w] # <<>> /\ NoCoverage(pickups[w])) =>
          /\ Untouched(w)
          /\ session[w] = NoSession
          /\ iter[w] >= 1 =>
                (pc[w] = "error" /\ error[w] = "ValueError: run covers no centerline")

C1_Witness ==
    \E w \in Workers :
       /\ Len(pickups[w]) >= 2
       /\ NoCoverage(pickups[w])
       /\ pc[w] = "error"
       /\ NearestTo(CenterlineById(2), NearestOf(pickups[w])) = DOMAIN pickups[w]
       /\ db_stats # <<>>

---------------------------------------------------------------------------
(* C2, C3 *)

\* the number of pickups worker w's run has on a blockface
RunCount(w, bf) == Len(OnBlockface(w, bf[1], bf[2]))

\* max - min of the linear references of those pickups, over GeomLength
RunSpan(w, bf) ==
    LET mine == OnBlockface(w, bf[1], bf[2])
        lrs  == {Project(mine[i].centerline, mine[i].pickup.geometry) : i \in DOMAIN mine}
    IN  SetMax(lrs) - SetMin(lrs)

\* the density of worker w's run on a blockface is dn/dd with
\*   dn = count * GeomLength  and  dd = span * length_in_meters
RunDensityNum(w, bf) == RunCount(w, bf) * GeomLength(CenterlineById(bf[1]))

RunDensityDen(w, bf) == RunSpan(w, bf) * CenterlineById(bf[1]).length_in_meters

\* C2: when a run commits pickups on a blockface that already has one
\* statistic, the blockface still has exactly one statistic afterwards, with
\* num_runs one higher and density the run-count weighted mean of the prior
\* density and the run's density; so two runs give num_runs = 2 and
\* (d1*1 + d2)/2, and n runs give num_runs = n.
C2_PriorRunMerged ==
    \A w \in Workers : \A bf \in Touched(w) :
       (pc[w] = "done" /\ Len(RowsFor(db_before[w].stats, bf[1], bf[2])) = 1) =>
          LET prior == RowsFor(db_before[w].stats, bf[1], bf[2])[1]
              now   == RowsFor(db_stats, bf[1], bf[2])
          IN  /\ Len(now) = 1
              /\ now[1].num_runs = prior.num_runs + 1
              /\ SameFraction(now[1].rubbish_per_meter.num, now[1].rubbish_per_meter.den,
                              prior.rubbish_per_meter.num * prior.num_runs
                                    * RunDensityDen(w, bf)
                                 + RunDensityNum(w, bf) * prior.rubbish_per_meter.den,
                              prior.rubbish_per_meter.den * RunDensityDen(w, bf)
                                 * (prior.num_runs + 1))

\* C3: when a run commits pickups on a blockface that has no statistic, the
\* blockface has exactly one statistic afterwards, with num_runs = 1 and
\* density = (number of pickups / coverage) / length in meters.
C3_FirstRunStatistic ==
    \A w \in Workers : \A bf \in Touched(w) :
       (pc[w] = "done" /\ RowsFor(db_before[w].stats, bf[1], bf[2]) = <<>>) =>
          LET now == RowsFor(db_stats, bf[1], bf[2])
          IN  /\ Len(now) = 1
              /\ now[1].num_runs = 1
              /\ SameFraction(now[1].rubbish_per_meter.num, now[1].rubbish_per_meter.den,
                              RunDensityNum(w, bf), RunDensityDen(w, bf))

\* a run has created the statistic of a blockface on which it has two
\* pickups, seven tenths of the centerline apart
C3_Witness ==
    \E w \in Workers : \E bf \in Touched(w) :
       /\ pc[w] = "done"
       /\ RowsFor(db_before[w].stats, bf[1], bf[2]) = <<>>
       /\ RunCount(w, bf) = 2
       /\ 10 * RunSpan(w, bf) = 7 * GeomLength(CenterlineById(bf[1]))
       /\ RowsFor(db_stats, bf[1], bf[2])[1].rubbish_per_meter = [num |-> 1, den |-> 35]

---------------------------------------------------------------------------
(* C4 *)

\* C4: when two concurrent runs that both hold pickups on a blockface have
\* both committed, the blockface has a single statistic, and its num_runs is
\* that of the statistic both runs started from plus two (2 where there was
\* none).
C4_NoLostUpdate ==
    \A bf \in Touched(1) \cap Touched(2) :
       (/\ pc[1] = "done" /\ pc[2] = "done"
        /\ db_before[1].stats = db_before[2].stats
        /\ Len(RowsFor(db_before[1].stats, bf[1], bf[2])) <= 1) =>
          LET prior == RowsFor(db_before[1].stats, bf[1], bf[2])
              now   == RowsFor(db_stats, bf[1], bf[2])
          IN  /\ Len(now) = 1
              /\ now[1].num_runs = (IF prior = <<>> THEN 0 ELSE prior[1].num_runs) + 2

---------------------------------------------------------------------------
(* C5 *)

\* the defects of a pickup that the validation is to reject
Malformed(p) ==
    \/ ~p.is_dict
    \/ ~(AllAttrs \subseteq p.attrs)
    \/ p.geometry.type # "Point"
    \/ ~p.timestamp.castable
    \/ p.timestamp.ahead > 5 * 60
    \/ p.curb \notin {"left", "right", "middle", "None"}
    \/ p.type \notin RUBBISH_TYPES

ValidationErrors ==
    {"ValueError: not a dict", "ValueError: missing attribute",
     "ValueError: invalid geometry type",
     "ValueError: timestamp not castable", "ValueError: timestamp in the future",
     "ValueError: invalid curb", "ValueError: invalid type"}

\* C5: a call that raised a validation error, or whose run holds a malformed
\* pickup, has persisted nothing and never gets to write statistics or to
\* commit.
C5_InvalidPickupRejectsRun ==
    \A w \in Workers :
       (\/ error[w] \in ValidationErrors
        \/ \E i \in DOMAIN pickups[w] : Malformed(pickups[w][i])) =>
          /\ Untouched(w)
          /\ session[w] = NoSession
          /\ pc[w] \notin {"stats", "commit", "done"}

C5_Witness ==
    \E w \in Workers :
       /\ pc[w] = "error"
       /\ error[w] = "ValueError: invalid curb"
       /\ db_stats # <<>>
       /\ Untouched(w)

---------------------------------------------------------------------------
(* C6 *)

\* C6: a blockface on which the run of a call holds exactly one pickup gets
\* no statistic from that call, and the statistics the database holds for it
\* are the ones it held when the call began.
C6_SinglePointGroupWritesNothing ==
    \A w \in Workers : \A bf \in Touched(w) :
       RunCount(w, bf) = 1 =>
          /\ RowsFor(session[w].stats, bf[1], bf[2]) = <<>>
          /\ RowsFor(db_stats, bf[1], bf[2]) = RowsFor(db_before[w].stats, bf[1], bf[2])

\* the statistics loop has met a blockface of one pickup that already has a
\* statistic
C6_Witness ==
    \E w \in Workers : \E bf \in Touched(w) :
       /\ RunCount(w, bf) = 1
       /\ blockfaces[w] # <<>>
       /\ pc[w] = "error"
       /\ error[w] = "ZeroDivisionError"
       /\ RowsFor(db_stats, bf[1], bf[2]) # <<>>

---------------------------------------------------------------------------
(* C7 *)

\* c is the only centerline that is nearest to any pickup of the run
SoleNearest(c, run) == \A i \in DOMAIN run : Nearest(run[i].geometry) = {c}

\* C7: when every pickup of a run has the same nearest centerline and the
\* pickups span at least half of it, the matching loop ends after exactly
\* one pass with one entry, that centerline's, which holds every pickup of
\* the run.
C7_OneIteration ==
    \A w \in Workers : \A c \in db_centerlines :
       (/\ pickups[w] # <<>>
        /\ iter[w] >= 1
        /\ SoleNearest(c, pickups[w])
        /\ 2 * Span(c, pickups[w], DOMAIN pickups[w]) >= GeomLength(c)) =>
          /\ iter[w] = 1
          /\ pc[w] # "match"
          /\ Len(centerlines[w]) = 1
          /\ centerlines[w][1].centerline = c
          /\ [i \in DOMAIN centerlines[w][1].points |->
                 centerlines[w][1].points[i].geometry]
               = [i \in DOMAIN pickups[w] |-> pickups[w][i].geometry]

\* a run of three pickups next to centerline 2 that span exactly half of it
C7_Witness ==
    \E w \in Workers :
       /\ Len(pickups[w]) = 3
       /\ SoleNearest(CenterlineById(2), pickups[w])
       /\ 2 * Span(CenterlineById(2), pickups[w], DOMAIN pickups[w])
             = GeomLength(CenterlineById(2))
       /\ iter[w] = 1
       /\ pc[w] = "done"

---------------------------------------------------------------------------
(* C8 *)

\* the number of pickups of a sequence that lie at geometry g
CountAt(points, g) == Cardinality({i \in DOMAIN points : points[i].geometry = g})

\* C8: when the matching loop needed more than one pass and ended with a
\* single entry, that entry holds every pickup of the run, and every pending
\* row, every blockface and every statistic the call adds to the database
\* belongs to that entry's centerline.
C8_ScatterConsolidated ==
    \A w \in Workers :
       (Matched(w) /\ iter[w] > 1 /\ Len(centerlines[w]) = 1) =>
          LET g     == centerlines[w][1]
              added == SubSeq(db_stats, Len(db_before[w].stats) + 1, Len(db_stats))
          IN  /\ Len(g.points) = Len(pickups[w])
              /\ \A i \in DOMAIN pickups[w] :
                    CountAt(g.points, pickups[w][i].geometry)
                       = CountAt(pickups[w], pickups[w][i].geometry)
              /\ \A k \in DOMAIN session[w].pickups :
                    session[w].pickups[k].centerline_id = g.centerline.id
              /\ \A k \in DOMAIN blockfaces[w] :
                    blockfaces[w][k].centerline = g.centerline
              /\ \A k \in DOMAIN session[w].stats :
                    session[w].stats[k].centerline_id = g.centerline.id
              /\ \A k \in DOMAIN added : added[k].centerline_id = g.centerline.id

\* a run whose third pickup was first matched to another centerline has
\* committed a statistic
C8_Witness ==
    \E w \in Workers :
       /\ pc[w] = "done"
       /\ iter[w] > 1
       /\ Len(centerlines[w]) = 1
       /\ Len(pickups[w]) = 3
       /\ \E i \in DOMAIN pickups[w] :
             centerlines[w][1].centerline \notin Nearest(pickups[w][i].geometry)
       /\ Len(db_stats) > Len(db_before[w].stats)

---------------------------------------------------------------------------
(* C9 *)

\* C9: the matching loop terminates.  While it runs, the number of passes
\* made is at most the rank ceiling and at most the number of centerlines;
\* every pass that does not raise in the query increases the rank by one;
\* and no call stays in the loop forever.
C9_LoopTerminates ==
    /\ [](\A w \in Workers :
            pc[w] = "match" =>
               /\ iter[w] <= RankCap
               /\ iter[w] <= Cardinality(db_centerlines))
    /\ [][\A w \in Workers :
            (pc[w] = "match" /\ pc'[w] # "error") => iter'[w] = iter[w] + 1]_vars
    /\ \A w \in Workers : []<>(pc[w] # "match")

\* the loop has made as many passes as the rank ceiling and has not ended
C9_Witness ==
    \E w \in Workers : pc[w] = "match" /\ iter[w] = RankCap

---------------------------------------------------------------------------
(* C10 *)

\* C10: after the inference of the curbs every pickup of every entry has a
\* curb among left, right and middle.
C10_CurbsResolved ==
    \A w \in Workers :
       pc[w] \in {"build", "stats", "commit", "done"} =>
          \A a \in Range(Flatten(centerlines[w])) :
             a.pickup.curb \in {"left", "right", "middle"}

---------------------------------------------------------------------------
(* Curb inference. *)

\* every pickup of the dict entry came with a side
AllSupplied(group) == \A k \in DOMAIN group.points : group.points[k].curb # "None"

\* C11: a dict entry whose pickups all came with a side leaves curb
\* inference with every pickup as it was; the Pickup rows built afterwards
\* carry the curbs of the dict's pickups, in the order of the nested loops;
\* and the commit appends exactly these rows to the pickups table.
C11_SuppliedCurbsKept ==
    /\ [][\A w \in Workers :
            (pc[w] = "curb" /\ pc'[w] = "build") =>
               \A i \in DOMAIN centerlines[w] :
                  AllSupplied(centerlines[w][i]) =>
                     centerlines'[w][i].points = centerlines[w][i].points]_vars
    /\ [](\A w \in Workers :
            (pc[w] \in {"stats", "commit", "done"} /\ pickups[w] # <<>>) =>
               \E flat \in {Flatten(centerlines[w])} :
                  /\ DOMAIN session[w].pickups = DOMAIN flat
                  /\ \A k \in DOMAIN flat :
                        session[w].pickups[k].curb = flat[k].pickup.curb)
    /\ [][\A w \in Workers :
            (pc[w] = "commit" /\ pc'[w] = "done") =>
               db_pickups' = db_pickups \o session[w].pickups]_vars

\* a committed run of two or more pickups that all came with a side
C11_Witness ==
    \E w \in Workers :
       /\ pc[w] = "done"
       /\ Len(pickups[w]) >= 2
       /\ \A k \in DOMAIN pickups[w] : pickups[w][k].curb # "None"
       /\ Len(db_pickups) = Len(db_before[w].pickups) + Len(pickups[w])

\* sides[i] of the inference loop: the side of the entry's centerline its
\* i-th pickup lies on
SidesOf(group) ==
    [i \in DOMAIN group.points |->
        point_side_of_centerline(group.points[i].geometry, group.centerline)]

\* the side most of the entry's pickups lie on; either side on a draw
MajoritySides(group) ==
    LET sides == SidesOf(group)
        l == Cardinality({i \in DOMAIN sides : sides[i] = "left"})
        r == Cardinality({i \in DOMAIN sides : sides[i] = "right"})
    IN  IF l > r THEN {"left"} ELSE IF r > l THEN {"right"} ELSE {"left", "right"}

\* the entry's pickups after the bimodal branch: a pickup without a side
\* gets the side it lies on, the others keep theirs
BimodalOutcome(group) ==
    [i \in DOMAIN group.points |->
        IF group.points[i].curb = "None"
        THEN [group.points[i] EXCEPT !.curb = SidesOf(group)[i]]
        ELSE group.points[i]]

\* C12: for an entry of three or more pickups of which one has no side, the
\* inference either takes the bimodal branch or gives every pickup of the
\* entry the side most of its pickups lie on.
C12_MajoritySide ==
    [][\A w \in Workers :
         (pc[w] = "curb" /\ pc'[w] = "build") =>
            \A i \in DOMAIN centerlines[w] :
               (Len(centerlines[w][i].points) >= 3 /\ ~AllSupplied(centerlines[w][i])) =>
                  \/ centerlines'[w][i].points = BimodalOutcome(centerlines[w][i])
                  \/ \E side \in MajoritySides(centerlines[w][i]) :
                        centerlines'[w][i].points =
                           SetAllCurbs(centerlines[w][i].points, side)]_vars

\* the pickups of the entry that came without a side
Lacking(group) == {k \in DOMAIN group.points : group.points[k].curb = "None"}

\* the first side a caller supplied, in the order of the entry's pickups
FirstSupplied(group) ==
    group.points[SetMin(DOMAIN group.points \ Lacking(group))].curb

\* C13 as stated: an entry with one or two pickups lacking a side, whatever
\* its size, leaves the inference with every pickup on the first side a
\* caller supplied for one of its pickups.
C13_FewLackingTakeFirstSupplied ==
    [][\A w \in Workers :
         (pc[w] = "curb" /\ pc'[w] = "build") =>
            \A i \in DOMAIN centerlines[w] :
               \E g \in {centerlines[w][i]} :
                  (/\ Cardinality(Lacking(g)) \in {1, 2}
                   /\ Lacking(g) # DOMAIN g.points) =>
                     centerlines'[w][i].points = SetAllCurbs(g.points, FirstSupplied(g))]_vars

\* C13 amended: an entry of fewer than three pickups, of which one lacks a
\* side, leaves the inference with every pickup on the first side a caller
\* supplied for one of its pickups.
C13_SmallGroupTakesFirstSupplied ==
    [][\A w \in Workers :
         (pc[w] = "curb" /\ pc'[w] = "build") =>
            \A i \in DOMAIN centerlines[w] :
               \E g \in {centerlines[w][i]} :
                  (/\ Len(g.points) < 3
                   /\ Lacking(g) # {}
                   /\ Lacking(g) # DOMAIN g.points) =>
                     centerlines'[w][i].points = SetAllCurbs(g.points, FirstSupplied(g))]_vars

\* the inference has run on an entry of two pickups, one of which came
\* without a side, and both now have the side of the other
C13_Witness ==
    \E w \in Workers :
       /\ pc[w] = "build"
       /\ Len(pickups[w]) = 2
       /\ Len(centerlines[w]) = 1
       /\ \E k \in 1..2 :
             /\ pickups[w][k].curb = "None"
             /\ pickups[w][3 - k].curb # "None"
             /\ \A j \in 1..2 : centerlines[w][1].points[j].curb = pickups[w][3 - k].curb

---------------------------------------------------------------------------
(* point_side_of_centerline *)

---------------------------------------------------------------------------
(* nearest_centerline_to_point *)

\* the centerlines of the current generation of their zone
ValidCenterlines == {c \in db_centerlines : c.last_zone_generation = NullGeneration}

\* C15: once an import is complete and the table holds centerlines whose
\* last_zone_generation is null, a pass of the matching loop only matches
\* pickups to such centerlines: every dict entry the pass creates or adds to
\* is the entry of one of them.
C15_OnlyValidCenterlines ==
    [][\A w \in Workers :
         (/\ pc[w] = "match" /\ pc'[w] \in {"match", "curb"}
          /\ ~zone_call.pending
          /\ ValidCenterlines # {}) =>
            \A i \in DOMAIN centerlines'[w] :
               centerlines'[w][i] \notin Range(centerlines[w]) =>
                  centerlines'[w][i].centerline \in ValidCenterlines]_vars

\* C16: nearest_centerline_to_point raises when the table is empty, when
\* rank is not below the number of centerlines and when rank is above 100,
\* and returns a centerline of the table for every other rank.
C16_RanksServed ==
    response.op = "nearest_centerline_to_point" =>
       IF \/ db_centerlines = {}
          \/ response.rank >= Cardinality(db_centerlines)
          \/ response.rank > RankCap
       THEN response.result = {}
       ELSE response.result # {} /\ response.result \subseteq db_centerlines

---------------------------------------------------------------------------
(* The read operations. *)

\* the run has a committed pickup on the blockface
RunTouched(rid, c_id, curb) ==
    \E r \in Range(db_pickups) :
       r.firebase_run_id = rid /\ r.centerline_id = c_id /\ r.curb = curb

\* C17: run_get raises exactly when the run has no committed pickup; what
\* it returns has one entry for each centerline on which a blockface of the
\* run has a statistic, and in it the statistic of each blockface the run
\* has pickups on and None for every other side, whatever the table holds
\* for that side.
C17_RunGetOnlyTouched ==
    [][(response' # response /\ response'.op = "run_get") =>
          \E rid \in {response'.run_id} : \E res \in {response'.result} :
             /\ response'.raised <=> ~\E r \in Range(db_pickups) : r.firebase_run_id = rid
             /\ \A i, j \in DOMAIN res : res[i].centerline = res[j].centerline => i = j
             /\ \A c \in db_centerlines :
                   (\E i \in DOMAIN res : res[i].centerline = c.id) <=>
                      \E curb \in {"left", "middle", "right"} :
                         /\ RunTouched(rid, c.id, curb)
                         /\ RowsFor(db_stats, c.id, curb) # <<>>
             /\ \A i \in DOMAIN res : \A curb \in {"left", "middle", "right"} :
                   IF RunTouched(rid, res[i].centerline, curb)
                   THEN res[i].statistics[curb] \subseteq
                           Range(RowsFor(db_stats, res[i].centerline, curb))
                        /\ (res[i].statistics[curb] = {} <=>
                               RowsFor(db_stats, res[i].centerline, curb) = <<>>)
                   ELSE res[i].statistics[curb] = {}]_vars

\* run_get returned, for a run on one side of a centerline, that side's
\* statistic and None for the other side, which has a statistic of its own
C17_Witness ==
    /\ response.op = "run_get"
    /\ ~response.raised
    /\ \E i \in DOMAIN response.result :
          \E side, other \in {"left", "right"} :
             /\ side # other
             /\ response.result[i].statistics[side] # {}
             /\ response.result[i].statistics[other] = {}
             /\ RowsFor(db_stats, response.result[i].centerline, other) # <<>>
             /\ ~RunTouched(response.run_id, response.result[i].centerline, other)

\* C18: coord_get without include_na returns the first centerline, among
\* those of ranks 0 to 9 in the order it fetched them, that has a statistic,
\* with at least one side that is not None, and raises only when none of the
\* centerlines it fetched has one.
C18_FirstWithStatistics ==
    [][(response' # response /\ response'.op = "coord_get" /\ ~response'.include_na) =>
          \E r \in {response'} :
             /\ Len(r.tried) <= CoordAttempts
             /\ r.raised => \A k \in DOMAIN r.tried : get_stats_objs(r.tried[k]) = <<>>
             /\ ~r.raised =>
                   /\ r.centerline = {r.tried[Len(r.tried)]}
                   /\ \A k \in 1..(Len(r.tried) - 1) : get_stats_objs(r.tried[k]) = <<>>
                   /\ \E curb \in {"left", "middle", "right"} : r.statistics[curb] # {}]_vars

\* the segment has no point outside the rectangle: it lies inside it or on
\* its boundary
LiesWithin(c, g) ==
    /\ g.xmin <= Min(c.x0, c.x1)
    /\ Max(c.x0, c.x1) <= g.xmax
    /\ g.ymin <= Min(c.y0, c.y1)
    /\ Max(c.y0, c.y1) <= g.ymax

\* C19: every segment sector_get returns lies fully inside the named sector
\* or on its boundary, with include_na either True or False; a segment with
\* a point outside the sector is never returned.
C19_SectorOnlyWithin ==
    [][(response' # response /\ response'.op = "sector_get" /\ ~response'.raised)
         => \A i \in DOMAIN response'.result :
            \A c \in db_centerlines :
               c.id = response'.result[i].centerline
                  => LiesWithin(c, db_sectors[SectorIndex(response'.sector_name)].geometry)]_vars

\* the centerlines the query of the call selects: those nearer to the
\* point than the distance, those that meet the sector
InRange(r) ==
    IF r.op = "radial_get"
    THEN {c \in db_centerlines : Distance2(c, r.coord) < r.distance * r.distance}
    ELSE {c \in db_centerlines : ST_Intersects(c, db_sectors[SectorIndex(r.sector_name)].geometry)}

HasStatistics(c) == \E k \in DOMAIN db_stats : db_stats[k].centerline_id = c.id

OpenGenerations(zone_id) ==
    {i \in DOMAIN db_zone_generations :
        /\ db_zone_generations[i].zone_id = zone_id
        /\ db_zone_generations[i].final_timestamp = "None"}

\* C21: after any sequence of update_zone calls every imported zone has
\* exactly one open generation (final_timestamp null), the one with the
\* highest generation number, and the generation numbers of a zone run
\* 0, 1, 2, ... in the order of the updates.
C21_OneOpenGeneration ==
    \A z \in DOMAIN db_zones :
       LET gens == ZoneRows(db_zone_generations, db_zones[z].id)
       IN  /\ \A k \in DOMAIN gens : gens[k].generation = k - 1
           /\ \E i \in OpenGenerations(db_zones[z].id) :
                 /\ OpenGenerations(db_zones[z].id) = {i}
                 /\ db_zone_generations[i].generation = Len(gens) - 1

\* C22: update_zone is atomic: when a call has ended, whether its insert of
\* the segments failed or not, the database is not left with a generation
\* of a zone all of whose segments are closed.
C22_UpdateZoneAtomic ==
    ~zone_call.pending
       => \A i \in DOMAIN db_zone_generations :
             \E c \in db_centerlines :
                /\ c.zone_id = db_zone_generations[i].zone_id
                /\ c.last_zone_generation = NullGeneration

\* the newest generation of a zone
NewestGeneration(zone_id) ==
    LET gens == ZoneRows(db_zone_generations, zone_id)
    IN  gens[Len(gens)]

\* C30: after any sequence of update_zone calls every segment's generation
\* range is well formed: first_zone_generation <= last_zone_generation when
\* last_zone_generation is not null, and when no call is under way the open
\* segments of a zone are those of its most recent update.
C30_GenerationRangeWellFormed ==
    /\ \A c \in db_centerlines :
          c.last_zone_generation # NullGeneration
             => c.first_zone_generation <= c.last_zone_generation
    /\ ~zone_call.pending
          => \A c \in db_centerlines :
                c.last_zone_generation = NullGeneration
                   => c.first_zone_generation = NewestGeneration(c.zone_id).id

\* C23: every defect of a pickup, a missing field among firebase_id,
\* firebase_run_id, type, timestamp, curb and geometry included, is detected
\* by the validation pass: a run that got past it, and so is matched to
\* centerlines, holds no pickup with a defect.
C23_ValidatedBeforeMatching ==
    \A w \in Workers :
       pc[w] \in {"match", "curb", "build", "stats", "commit", "done"}
          => \A i \in DOMAIN pickups[w] : ~Malformed(pickups[w][i])

\* the linear references of the points of a group on the group's centerline
GroupRefs(g) == {Project(g.centerline, g.points[i].geometry) : i \in DOMAIN g.points}

\* the group's points span at least half of its centerline
HalfCovered(g) ==
    \E lo, hi \in GroupRefs(g) : 2 * (hi - lo) >= GeomLength(g.centerline)

\* the points a call holds: those in the groups and those unresolved
PointsHeld(groups, unresolved) ==
    Len(unresolved) + SeqSum([i \in DOMAIN groups |-> Len(groups[i].points)])

\* C24: at the end of every pass of the assignment loop each group left in
\* the map covers at least half of its centerline, the points of the groups
\* that did not are all back in the unresolved list (no point is lost or
\* kept twice), and when the loop exits successfully the unresolved list is
\* empty.
C24_LoopExitCovered ==
    [][\A w \in Workers :
          (pc[w] = "match" /\ iter'[w] # iter[w])
             => /\ \A i \in DOMAIN centerlines'[w] : HalfCovered(centerlines'[w][i])
                /\ PointsHeld(centerlines'[w], points_needing_work'[w])
                      = PointsHeld(centerlines[w], points_needing_work[w])
                /\ \A i \in DOMAIN points_needing_work'[w] :
                      \E j \in DOMAIN points_needing_work[w] :
                         points_needing_work'[w][i] = points_needing_work[w][j]
                /\ pc'[w] = "curb" <=> (points_needing_work'[w] = <<>> /\ centerlines'[w] # <<>>)
                /\ pc'[w] \in {"match", "curb", "error"}]_vars

\* a loop has rejected a group in its first pass and left successfully later
C24_Witness ==
    \E w \in Workers :
       /\ pc[w] = "curb"
       /\ iter[w] >= 2
       /\ points_needing_work[w] = <<>>
       /\ Len(centerlines[w]) >= 1

\* the point is farther from the centerline than the distance of the check
TooFar(c, p) == Distance2(c, p) > DiscardDistance * DiscardDistance

\* C25: with check_distance=True a pickup farther from its matched
\* centerline than the rejection threshold is discarded: no group that
\* leaves the assignment loop, and so goes on to be persisted and counted in
\* coverage and statistics, holds such a pickup.
C25_FarPickupsDiscarded ==
    \A w \in Workers :
       pc[w] \in {"curb", "build", "stats", "commit"}
          => \A i \in DOMAIN centerlines[w] :
             \A k \in DOMAIN centerlines[w][i].points :
                ~TooFar(centerlines[w][i].centerline, centerlines[w][i].points[k].geometry)

\* s is a prefix of t
IsPrefix(s, t) == Len(s) <= Len(t) /\ \A k \in DOMAIN s : s[k] = t[k]

\* C26: in every pass of the assignment loop a group that passed the
\* coverage test of an earlier pass stays in the map, its points kept and
\* only added to; the points added in the pass are those unresolved before
\* it, each matched at the rank of the pass, which is one more than the rank
\* of the pass before; and the points the pass leaves unresolved (those of
\* the groups it rejects) were all matched in this pass.
C26_AcceptedGroupsStay ==
    [][\A w \in Workers :
          (pc[w] = "match" /\ iter'[w] # iter[w])
             => /\ iter'[w] = iter[w] + 1
                /\ \A i \in DOMAIN centerlines[w] :
                      \E j \in DOMAIN centerlines'[w] :
                         /\ centerlines'[w][j].centerline = centerlines[w][i].centerline
                         /\ IsPrefix(centerlines[w][i].points, centerlines'[w][j].points)
                /\ \A j \in DOMAIN centerlines'[w] :
                      LET g   == centerlines'[w][j]
                          i   == GroupIndex(centerlines[w], g.centerline.id)
                          old == IF i = 0 THEN 0 ELSE Len(centerlines[w][i].points)
                      IN  \A k \in (old + 1)..Len(g.points) :
                             /\ \E n \in DOMAIN points_needing_work[w] :
                                   points_needing_work[w][n] = g.points[k]
                             /\ g.centerline \in
                                   nearest_centerline_to_point(db_centerlines,
                                                               g.points[k].geometry, iter[w])
                /\ \A n \in DOMAIN points_needing_work'[w] :
                      \E m \in DOMAIN points_needing_work[w] :
                         points_needing_work'[w][n] = points_needing_work[w][m]]_vars

\* a pass at rank 1 or later has added a point to a group that an earlier
\* pass accepted
C26_Witness ==
    \E w \in Workers :
       /\ pc[w] = "curb"
       /\ iter[w] >= 2
       /\ \E i \in DOMAIN centerlines[w] :
             \E k \in DOMAIN centerlines[w][i].points :
                centerlines[w][i].centerline \notin
                   nearest_centerline_to_point(db_centerlines,
                                               centerlines[w][i].points[k].geometry, 0)

\* the committed Pickup rows of a run
RunRows(rid) == SelectSeq(db_pickups, LAMBDA r : r.firebase_run_id = rid)

C28_NoDivisionByZero ==
    \A w \in Workers :
       /\ error[w] # "ZeroDivisionError"
       /\ pc[w] = "stats"
             => \A i \in DOMAIN blockfaces[w] : Coverage(blockfaces[w][i]) > 0

\* the values the local variable `curb` may hold when the inference loop
\* reaches a group
CarriedCurbs == {"None", "left", "right", "middle"}

\* C29: the sides the inference gives to the points of a group depend only
\* on the group's own points (and on the outcome of the normality test on
\* them): they are what the inference gives that group whatever was left
\* in `curb` by the validation pass or by the groups handled before it.
C29_SidesLocalToGroup ==
    [][\A w \in Workers :
          (pc[w] = "curb" /\ pc'[w] = "build")
             => \A i \in DOMAIN centerlines[w] :
                   IF NeedsCurbInference(centerlines[w][i])
                   THEN \E gaussian \in BOOLEAN : \A curb \in CarriedCurbs :
                           centerlines'[w][i].points
                              = InferCurbs(centerlines[w][i], curb, gaussian).group.points
                   ELSE centerlines'[w][i] = centerlines[w][i]]_vars

====
